---- MODULE Spec2Model ----
(***************************************************************************)
(* A model of Jiki: the N-dimensional Ising engine (src/src/ising.rs), the *)
(* earlier two-dimensional engine (src/jiki/src/topo.rs), the Topology     *)
(* (src/jiki/src/topology.rs, src/src/topology.rs) and the Sheaf           *)
(* (src/src/topology.rs).                                                  *)
(*                                                                         *)
(* Lattice points and open sets are sequences (Vec<usize>, Vec<Vec<..>>).  *)
(* An f64 is a normalised fraction <<numerator, denominator>>; 0/0 is NaN. *)
(* A Result is a record [tag, val] with tag "Ok" or "Err"; a call that     *)
(* aborts (unwrap of None/Err, assert!) has tag "Panic".                   *)
(***************************************************************************)
EXTENDS Integers, Sequences, FiniteSets, TLC

VARIABLES
    size,           \* Ising.lattice.size (lattice.dimension = Len(size))
    spins,          \* Ising.spins : HashMap<Vec<usize>, Spin>
    coupling,       \* Ising.coupling
    applied_field,  \* Ising.applied_field
    length,         \* Ising2D.length
    width,          \* Ising2D.width
    nodes,          \* Ising2D.nodes : Vec<(usize, usize, LocalState)>
    coupling2d,     \* Ising2D.coupling
    basis,          \* Topology.basis : HashSet<OpenSet>
    sheaf,          \* the Sheaf, once built: its three section maps
    last            \* the last call made: [op, args, ret]

vars == <<size, spins, coupling, applied_field, length, width, nodes,
          coupling2d, basis, sheaf, last>>

isingVars == <<size, spins, coupling, applied_field>>
ising2dVars == <<length, width, nodes, coupling2d>>

----------------------------------------------------------------------------
\* Bounds

\* a lattice has at most this many points
MaxPoints == 4

\* the values the coupling and the applied field are drawn from
Couplings == {-1, 1}
Fields == {0, 1}

----------------------------------------------------------------------------
\* f64 arithmetic

Abs(x) == IF x < 0 THEN -x ELSE x

Min(a, b) == IF a < b THEN a ELSE b

RECURSIVE gcd(_, _)
gcd(a, b) == IF b = 0 THEN a ELSE gcd(b, a % b)

NaN == <<0, 0>>

\* the f64 n/d
f64(n, d) ==
    IF d = 0 THEN NaN
    ELSE LET g == gcd(Abs(n), Abs(d))
             s == IF d < 0 THEN -1 ELSE 1
         IN  <<(s * n) \div g, (s * d) \div g>>

is_nan(a) == a[2] = 0

f64_add(a, b) ==
    IF is_nan(a) \/ is_nan(b) THEN NaN
    ELSE f64(a[1] * b[2] + b[1] * a[2], a[2] * b[2])

f64_neg(a) == IF is_nan(a) THEN NaN ELSE <<-a[1], a[2]>>

f64_sub(a, b) == f64_add(a, f64_neg(b))

f64_mul(a, b) ==
    IF is_nan(a) \/ is_nan(b) THEN NaN ELSE f64(a[1] * b[1], a[2] * b[2])

f64_div(a, b) ==
    IF is_nan(a) \/ is_nan(b) THEN NaN ELSE f64(a[1] * b[2], a[2] * b[1])

\* ==, > 0.0 and < 0.0 on f64 (every comparison with NaN is false)
f64_eq(a, b) == ~is_nan(a) /\ ~is_nan(b) /\ a = b
f64_gt0(a) == ~is_nan(a) /\ a[1] > 0
f64_lt0(a) == ~is_nan(a) /\ a[1] < 0

\* the sum of f over the finite set S
RECURSIVE f64_sum(_, _)
f64_sum(S, f) ==
    IF S = {} THEN f64(0, 1)
    ELSE LET x == CHOOSE x \in S : TRUE
         IN  f64_add(f[x], f64_sum(S \ {x}, f))

----------------------------------------------------------------------------
\* Results

Ok(v) == [tag |-> "Ok", val |-> v]
Err(m) == [tag |-> "Err", val |-> m]
Panic == [tag |-> "Panic", val |-> "panic"]

----------------------------------------------------------------------------
\* Spin and Lattice (src/src/ising.rs)

Spin == {"Up", "Down"}

flip(s) == IF s = "Up" THEN "Down" ELSE "Up"

spin_value(s) == IF s = "Up" THEN f64(1, 1) ELSE f64(-1, 1)

RECURSIVE Product(_)
Product(sz) == IF sz = <<>> THEN 1 ELSE Head(sz) * Product(Tail(sz))

\* the k-th point (from 0) of the Cartesian product of the ranges 0..sz[d]-1,
\* the last axis varying fastest
PointAt(sz, k) ==
    [d \in 1..Len(sz) |-> (k \div Product(SubSeq(sz, d + 1, Len(sz)))) % sz[d]]

multi_cartesian_product(sz) == [k \in 1..Product(sz) |-> PointAt(sz, k - 1)]

Range(s) == {s[i] : i \in DOMAIN s}

all_points(sz) == Range(multi_cartesian_product(sz))

\* the lattices of one or two axes with every extent positive
LatticeSizes ==
    {sz \in UNION {[1..d -> 1..MaxPoints] : d \in 1..2} : Product(sz) <= MaxPoints}

\* idx.iter().zip(&lattice.size).any(|(&i, &cap)| i >= cap): zip stops at the
\* shorter of the two
invalid_index(sz, idx) ==
    \E k \in 1..Min(Len(idx), Len(sz)) : idx[k] >= sz[k]

\* an abs_distance that subtracts one way only
abs_distance_one_way(a, b) == IF a > b THEN a - b ELSE 0

abs_distance(a, b) == IF a > b THEN a - b ELSE b - a

RECURSIVE SumTo(_, _)
SumTo(n, f) == IF n = 0 THEN 0 ELSE f[n] + SumTo(n - 1, f)

\* node.iter().zip(idx).map(|(&n, &i)| abs_distance(n, i)).sum()
zip_distance(node, idx) ==
    LET n == Min(Len(node), Len(idx))
    IN  SumTo(n, [k \in 1..n |-> abs_distance(node[k], idx[k])])

----------------------------------------------------------------------------
\* Ising (src/src/ising.rs)

Ising_new(sz) == [p \in all_points(sz) |-> "Up"]

get_spin(sp, sz, idx) ==
    IF invalid_index(sz, idx) THEN Err("Invalid Index")
    ELSE IF idx \in DOMAIN sp THEN Ok(sp[idx])
    ELSE Panic

\* a set_spin that stores the spin under idx (HashMap::insert)
set_spin_insert(sp, sz, idx, spin) ==
    IF invalid_index(sz, idx) THEN [ret |-> Err("Invalid Index"), spins |-> sp]
    ELSE [ret |-> Ok("unit"),
          spins |-> [p \in DOMAIN sp \cup {idx} |-> IF p = idx THEN spin ELSE sp[p]]]

\* self.spins.get(idx).replace(&spin): Option::replace on the temporary
\* Option<&Spin> that get returns; the map is left as it was
set_spin(sp, sz, idx, spin) ==
    IF invalid_index(sz, idx) THEN [ret |-> Err("Invalid Index"), spins |-> sp]
    ELSE [ret |-> Ok("unit"), spins |-> sp]

\* the keys the filter keeps; the Vec's order is the map's iteration order, and
\* the keys are distinct, so the result is modelled as a set
nearest_neighbor(sp, sz, idx) ==
    IF invalid_index(sz, idx) THEN Err("Invalid Index")
    ELSE Ok({node \in DOMAIN sp : zip_distance(node, idx) = 1})

local_energy(sp, sz, J, h, idx) ==
    IF invalid_index(sz, idx) THEN Err("Invalid Index")
    ELSE IF get_spin(sp, sz, idx).tag # "Ok" THEN Panic
    ELSE LET local_spin == spin_value(get_spin(sp, sz, idx).val)
             field_energy == f64_mul(f64(-h, 1), local_spin)
             nn == nearest_neighbor(sp, sz, idx).val
             neighbor_energy ==
                 f64_sum(nn, [nidx \in nn |->
                     f64_mul(f64_mul(f64_neg(spin_value(sp[nidx])), local_spin),
                             f64(J, 1))])
         IN  Ok(f64_add(field_energy, neighbor_energy))

total_energy(sp, sz, J, h) ==
    f64_sum(DOMAIN sp, [idx \in DOMAIN sp |-> local_energy(sp, sz, J, h, idx).val])

magnetization(sp) ==
    f64_div(f64_sum(DOMAIN sp, [idx \in DOMAIN sp |-> spin_value(sp[idx])]),
            f64(Cardinality(DOMAIN sp), 1))

correlation(sp, sz, idx) ==
    IF invalid_index(sz, idx) THEN Err("Invalid Index")
    ELSE IF get_spin(sp, sz, idx).tag # "Ok" THEN Panic
    ELSE LET spin == spin_value(get_spin(sp, sz, idx).val)
             neighbors == nearest_neighbor(sp, sz, idx).val
             total == f64_sum(neighbors, [each \in neighbors |->
                          f64_mul(spin_value(sp[each]), spin)])
             \* 0.0 / 0.0 when the point has no neighbour
             neighbor_correlation ==
                 IF neighbors = {} THEN NaN
                 ELSE f64_div(total, f64(Cardinality(neighbors), 1))
         IN  Ok(f64_sub(neighbor_correlation,
                        f64_mul(magnetization(sp), magnetization(sp))))

\* One metropolis_stepper on the drawn point idx; exceeds is the outcome of
\* rng.gen::<f64>() > (-energy_change / (BOLTZMANN * temperature)).exp(), which
\* is evaluated only when energy_change > 0.0
metropolis_stepper(sp, sz, J, h, idx, exceeds) ==
    LET init_energy == local_energy(sp, sz, J, h, idx).val
        new_spin == flip(get_spin(sp, sz, idx).val)
        sp1 == set_spin(sp, sz, idx, new_spin).spins
        energy_change == f64_sub(local_energy(sp1, sz, J, h, idx).val, init_energy)
        sp2 == IF f64_gt0(energy_change) /\ exceeds THEN sp1
               ELSE IF f64_lt0(energy_change) THEN sp1
               ELSE set_spin(sp1, sz, idx, flip(new_spin)).spins
    IN  [energy_change |-> energy_change, spins |-> sp2]

\* the arguments a caller may pass as idx: every tuple of the lattice's
\* dimension with coordinates up to the extent itself, those tuples cut short
\* by one coordinate, and the lattice's points with one coordinate too many
IdxInputs(sz) ==
    LET box == {p \in [1..Len(sz) -> 0..MaxPoints] : \A d \in 1..Len(sz) : p[d] <= sz[d]}
    IN  box \cup {SubSeq(p, 1, Len(sz) - 1) : p \in box}
            \cup {Append(p, 0) : p \in all_points(sz)}

----------------------------------------------------------------------------
\* Ising2D (src/jiki/src/topo.rs)

\* the ExternalVars a LocalState carries; applied_field is a pair whose
\* product enters the energy
Envs == {[temperature |-> 1, applied_field |-> <<f, 1>>] : f \in Fields}

LocalStates == {[env |-> e, spin |-> s] : e \in Envs, s \in Spin}

\* the grids of at most MaxPoints nodes
Grids == {g \in (1..MaxPoints) \X (1..MaxPoints) : g[1] * g[2] <= MaxPoints}

Ising2D_new(len, wid, init_env) ==
    [k \in 1..(len * wid) |-> <<(k - 1) \div wid, (k - 1) % wid, init_env>>]

\* the positions of the nodes at (x, y)
Positions(nd, x, y) == {k \in DOMAIN nd : nd[k][1] = x /\ nd[k][2] = y}

FirstOf(S) == CHOOSE k \in S : \A j \in S : k <= j

Ising2D_get_state(nd, x, y) ==
    IF Positions(nd, x, y) # {} THEN Ok(nd[FirstOf(Positions(nd, x, y))][3])
    ELSE Err("Invalid Grid Coordinate")

Ising2D_set_state(nd, x, y, new_state) ==
    IF Positions(nd, x, y) # {}
    THEN [ret |-> Ok("unit"),
          nodes |-> [nd EXCEPT ![FirstOf(Positions(nd, x, y))] = <<x, y, new_state>>]]
    ELSE [ret |-> Err("Invalid Grid Coordinates"), nodes |-> nd]

\* the indices of the neighbouring nodes (each node's coordinates are its own,
\* so position() finds the node itself); assert! aborts out of bounds
Ising2D_nearest_neighbor(nd, len, wid, x, y) ==
    IF ~(x < len /\ y < wid) THEN Panic
    ELSE Ok({k \in DOMAIN nd :
               LET ldist == abs_distance(nd[k][1], x)
                   wdist == abs_distance(nd[k][2], y)
                   g == FirstOf(Positions(nd, nd[k][1], nd[k][2]))
               IN  ((ldist = 1 /\ wdist = 0) \/ (ldist = 0 /\ wdist = 1)) /\ g = k})

Ising2D_local_energy(nd, len, wid, J, x, y) ==
    IF Ising2D_get_state(nd, x, y).tag # "Ok" THEN Panic
    ELSE LET state == Ising2D_get_state(nd, x, y).val
             spin == spin_value(state.spin)
             field_alignment ==
                 f64_mul(f64(-(state.env.applied_field[1] * state.env.applied_field[2]), 1),
                         spin)
             nn == Ising2D_nearest_neighbor(nd, len, wid, x, y).val
             neighbor_energy ==
                 f64_sum(nn, [k \in nn |->
                     f64_mul(f64_mul(f64(-J, 1), spin), spin_value(nd[k][3].spin))])
         IN  Ok(f64_add(field_alignment, neighbor_energy))

GridPoints(len, wid) == (0..(len - 1)) \X (0..(wid - 1))

Ising2D_total_energy(nd, len, wid, J) ==
    f64_div(f64_sum(GridPoints(len, wid),
                    [p \in GridPoints(len, wid) |->
                        Ising2D_local_energy(nd, len, wid, J, p[1], p[2]).val]),
            f64(2, 1))

Ising2D_net_magnetization(nd, len, wid) ==
    f64_div(f64_sum(GridPoints(len, wid),
                    [p \in GridPoints(len, wid) |->
                        spin_value(Ising2D_get_state(nd, p[1], p[2]).val.spin)]),
            f64(2, 1))

\* One metropolis_algo on the drawn node (x, y); exceeds is the outcome of
\* rng.gen::<f64>() > (-diff / (BOLTZMANN * temp)).exp(), evaluated only when
\* diff > 0.0
Ising2D_metropolis_algo(nd, len, wid, J, x, y, exceeds) ==
    LET energy == Ising2D_local_energy(nd, len, wid, J, x, y).val
        old_state == Ising2D_get_state(nd, x, y).val
        new_state == [old_state EXCEPT !.spin = flip(old_state.spin)]
        nd1 == Ising2D_set_state(nd, x, y, new_state).nodes
        new_energy == Ising2D_local_energy(nd1, len, wid, J, x, y).val
        diff == f64_sub(new_energy, energy)
        nd2 == IF f64_gt0(diff) /\ exceeds THEN nd1
               ELSE IF f64_lt0(diff) THEN nd1
               ELSE Ising2D_set_state(nd1, x, y,
                        [new_state EXCEPT !.spin = flip(new_state.spin)]).nodes
    IN  [diff |-> diff, nodes |-> nd2]

----------------------------------------------------------------------------
\* The calls on an Ising

Call(op, args, ret) == [op |-> op, args |-> args, ret |-> ret]

NoCall == Call("none", <<>>, Ok("unit"))

GetSpin ==
    /\ \E idx \in IdxInputs(size) :
           last' = Call("get_spin", <<idx>>, get_spin(spins, size, idx))
    /\ UNCHANGED <<isingVars, ising2dVars, basis, sheaf>>

SetSpin ==
    /\ \E idx \in IdxInputs(size), spin \in Spin :
           LET r == set_spin(spins, size, idx, spin)
           IN  /\ spins' = r.spins
               /\ last' = Call("set_spin", <<idx, spin>>, r.ret)
    /\ UNCHANGED <<size, coupling, applied_field, ising2dVars, basis, sheaf>>

NearestNeighbor ==
    /\ \E idx \in IdxInputs(size) :
           last' = Call("nearest_neighbor", <<idx>>, nearest_neighbor(spins, size, idx))
    /\ UNCHANGED <<isingVars, ising2dVars, basis, sheaf>>

LocalEnergy ==
    /\ \E idx \in IdxInputs(size) :
           last' = Call("local_energy", <<idx>>,
                        local_energy(spins, size, coupling, applied_field, idx))
    /\ UNCHANGED <<isingVars, ising2dVars, basis, sheaf>>

TotalEnergy ==
    /\ last' = Call("total_energy", <<>>,
                    Ok(total_energy(spins, size, coupling, applied_field)))
    /\ UNCHANGED <<isingVars, ising2dVars, basis, sheaf>>

Magnetization ==
    /\ last' = Call("magnetization", <<>>, Ok(magnetization(spins)))
    /\ UNCHANGED <<isingVars, ising2dVars, basis, sheaf>>

Correlation ==
    /\ \E idx \in IdxInputs(size) :
           last' = Call("correlation", <<idx>>, correlation(spins, size, idx))
    /\ UNCHANGED <<isingVars, ising2dVars, basis, sheaf>>

\* the point is drawn with gen_range(0..size[d]) on every axis
MetropolisStepper ==
    /\ \E idx \in all_points(size), exceeds \in BOOLEAN :
           LET r == metropolis_stepper(spins, size, coupling, applied_field, idx, exceeds)
           IN  /\ spins' = r.spins
               /\ last' = Call("metropolis_stepper", <<idx, exceeds>>,
                               Ok([energy_change |-> r.energy_change,
                                   before |-> spins[idx]]))
    /\ UNCHANGED <<size, coupling, applied_field, ising2dVars, basis, sheaf>>

\* Ising::new on a lattice whose size was set
InitIsing ==
    /\ size \in LatticeSizes
    /\ spins = Ising_new(size)
    /\ coupling \in Couplings
    /\ applied_field \in Fields

\* no Ising2D is built
NoIsing2D ==
    /\ length = 1
    /\ width = 1
    /\ nodes = <<>>
    /\ coupling2d = 1

\* no Topology and no Sheaf is built
NoTopology ==
    /\ basis = {}
    /\ sheaf = [built |-> FALSE, energy_sections |-> <<>>, spin_sections |-> <<>>,
                correlation_sections |-> <<>>]

Init ==
    /\ InitIsing
    /\ NoIsing2D
    /\ NoTopology
    /\ last = NoCall

Next ==
    \/ GetSpin
    \/ SetSpin
    \/ NearestNeighbor
    \/ LocalEnergy
    \/ TotalEnergy
    \/ Magnetization
    \/ Correlation
    \/ MetropolisStepper

Spec == Init /\ [][Next]_vars

----------------------------------------------------------------------------
\* The calls on an Ising2D

GetState ==
    /\ \E x \in 0..length, y \in 0..width :
           last' = Call("get_state", <<x, y>>, Ising2D_get_state(nodes, x, y))
    /\ UNCHANGED <<isingVars, ising2dVars, basis, sheaf>>

\* x and y range over the grid and one step past it on each axis; the new
\* state keeps the environment the grid was built with
SetState ==
    /\ \E x \in 0..length, y \in 0..width, s \in Spin :
           LET new_state == [env |-> nodes[1][3].env, spin |-> s]
               r == Ising2D_set_state(nodes, x, y, new_state)
           IN  /\ nodes' = r.nodes
               /\ last' = Call("set_state", <<x, y, new_state>>, r.ret)
    /\ UNCHANGED <<isingVars, length, width, coupling2d, basis, sheaf>>

NearestNeighbor2D ==
    /\ \E x \in 0..length, y \in 0..width :
           last' = Call("nearest_neighbor", <<x, y>>,
                        Ising2D_nearest_neighbor(nodes, length, width, x, y))
    /\ UNCHANGED <<isingVars, ising2dVars, basis, sheaf>>

LocalEnergy2D ==
    /\ \E x \in 0..length, y \in 0..width :
           last' = Call("local_energy", <<x, y>>,
                        Ising2D_local_energy(nodes, length, width, coupling2d, x, y))
    /\ UNCHANGED <<isingVars, ising2dVars, basis, sheaf>>

TotalEnergy2D ==
    /\ last' = Call("total_energy", <<>>,
                    Ok(Ising2D_total_energy(nodes, length, width, coupling2d)))
    /\ UNCHANGED <<isingVars, ising2dVars, basis, sheaf>>

NetMagnetization ==
    /\ last' = Call("net_magnetization", <<>>,
                    Ok(Ising2D_net_magnetization(nodes, length, width)))
    /\ UNCHANGED <<isingVars, ising2dVars, basis, sheaf>>

\* the node is drawn with gen_range(0..length), gen_range(0..width)
MetropolisAlgo ==
    /\ \E p \in GridPoints(length, width), exceeds \in BOOLEAN :
           LET r == Ising2D_metropolis_algo(nodes, length, width, coupling2d,
                                            p[1], p[2], exceeds)
           IN  /\ nodes' = r.nodes
               /\ last' = Call("metropolis_algo", <<p[1], p[2], exceeds>>,
                               Ok([diff |-> r.diff,
                                   before |-> Ising2D_get_state(nodes, p[1], p[2]).val.spin]))
    /\ UNCHANGED <<isingVars, length, width, coupling2d, basis, sheaf>>

\* no Ising is built
NoIsing ==
    /\ size = <<1>>
    /\ spins = Ising_new(<<1>>)
    /\ coupling = 1
    /\ applied_field = 0

\* Ising2D::new
InitIsing2D ==
    /\ \E g \in Grids : length = g[1] /\ width = g[2]
    /\ \E init_env \in LocalStates : nodes = Ising2D_new(length, width, init_env)
    /\ coupling2d \in Couplings
    /\ NoIsing
    /\ NoTopology
    /\ last = NoCall

NextIsing2D ==
    \/ GetState
    \/ SetState
    \/ NearestNeighbor2D
    \/ LocalEnergy2D
    \/ TotalEnergy2D
    \/ NetMagnetization
    \/ MetropolisAlgo

SpecIsing2D == InitIsing2D /\ [][NextIsing2D]_vars

----------------------------------------------------------------------------
\* Topology (src/jiki/src/topology.rs; src/src/topology.rs builds the same
\* basis, its map over the single points being dropped unconsumed)

\* a Topology::new that inserts the empty set only
Topology_new_empty(sz) == {<<>>}

\* the empty set and the full lattice, in the product's order
Topology_new(sz) == {<<>>, multi_cartesian_product(sz)}

add_basis(b, set) == b \cup {set}

\* an is_open that asks every basis element to lie inside the set
is_open_contained(b, set) ==
    \A base \in b : \A point \in Range(base) : point \in Range(set)

is_open(b, set) ==
    \A base \in b :
        \/ \A point \in Range(base) : point \in Range(set)
        \/ \A point \in Range(base) : point \notin Range(set)

\* a point outside the lattice: every coordinate is its axis' extent
outside(sz) == [d \in 1..Len(sz) |-> sz[d]]

\* the open sets a caller passes: the empty set, the full lattice, a single
\* point, two overlapping pairs, and a pair that straddles the lattice's edge
OpenSetInputs(sz) ==
    LET full == multi_cartesian_product(sz)
        n == Len(full)
    IN  {<<>>, full, <<full[1]>>, <<full[1], full[Min(2, n)]>>,
         <<full[Min(2, n)], full[n]>>, <<full[n], outside(sz)>>}

----------------------------------------------------------------------------
\* Sheaf (src/src/topology.rs)

Observable == {"Energy", "Spin", "Correlation"}

compute(sp, sz, J, h, idx, obs) ==
    IF invalid_index(sz, idx) THEN Err("Invalid Index")
    ELSE IF obs = "Energy" THEN local_energy(sp, sz, J, h, idx)
    ELSE IF obs = "Spin"
         THEN (IF get_spin(sp, sz, idx).tag = "Ok"
               THEN Ok(spin_value(get_spin(sp, sz, idx).val)) ELSE Panic)
    ELSE correlation(sp, sz, idx)

NoSheaf ==
    [built |-> FALSE, energy_sections |-> <<>>, spin_sections |-> <<>>,
     correlation_sections |-> <<>>]

\* every compute(..).unwrap() of Sheaf::new returns
Sheaf_new_completes(b, sp, sz, J, h) ==
    \A openset \in b : \A point \in Range(openset) : \A obs \in Observable :
        compute(sp, sz, J, h, point, obs).tag = "Ok"

Sheaf_new(b, sp, sz, J, h) ==
    LET sections(obs) ==
            [openset \in b |->
                [point \in Range(openset) |-> compute(sp, sz, J, h, point, obs).val]]
    IN  [built |-> TRUE,
         energy_sections |-> sections("Energy"),
         spin_sections |-> sections("Spin"),
         correlation_sections |-> sections("Correlation")]

sections_of(sh, obs) ==
    IF obs = "Energy" THEN sh.energy_sections
    ELSE IF obs = "Spin" THEN sh.spin_sections
    ELSE sh.correlation_sections

\* the sections of one map that cover a point carry the same value there
CoveringSectionsAgree ==
    \A obs \in Observable :
        \A k1 \in DOMAIN sections_of(sheaf, obs), k2 \in DOMAIN sections_of(sheaf, obs) :
            \A point \in Range(k1) \cap Range(k2) :
                sections_of(sheaf, obs)[k1][point] = sections_of(sheaf, obs)[k2][point]

\* find() returns the first entry, in the map's iteration order, whose open set
\* holds the point; every such entry carries the same value at the point
\* (CoveringSectionsAgree), so the one taken here stands for any of them
get_section(sh, open_set, obs) ==
    LET secs == sections_of(sh, obs)
        covering(point) == {basis_set \in DOMAIN secs : point \in Range(basis_set)}
        found == {point \in Range(open_set) : covering(point) # {}}
    IN  [point \in found |->
            secs[CHOOSE basis_set \in covering(point) : TRUE][point]]

\* BTreeMap<LatticePoint, f64> == BTreeMap<LatticePoint, f64>
section_eq(a, b) ==
    /\ DOMAIN a = DOMAIN b
    /\ \A point \in DOMAIN a : f64_eq(a[point], b[point])

\* the filter_map that would assign the key is never consumed: oset stays empty
get_oset_from_section(sh, section, obs) ==
    IF ~\E k \in DOMAIN sections_of(sh, obs) : section_eq(sections_of(sh, obs)[k], section)
    THEN Err("Invalid section")
    ELSE Ok(<<>>)

\* restrict as written has no Observable to pass on to get_section; obs is the
\* one the section is read for
restrict(sh, larger_oset, target_oset, obs) ==
    IF ~\A point \in Range(target_oset) : point \in Range(larger_oset)
    THEN Err("Target Open Set is not a subset of the provided start set!")
    ELSE Ok(get_section(sh, larger_oset, obs))

\* Ord on Vec<usize>
lex_le(a, b) ==
    \/ \E k \in 1..Min(Len(a), Len(b)) :
           a[k] < b[k] /\ \A j \in 1..(k - 1) : a[j] = b[j]
    \/ Len(a) <= Len(b) /\ \A j \in 1..Len(a) : a[j] = b[j]

\* the keys of a BTreeMap in iteration order
RECURSIVE sorted(_)
sorted(S) ==
    IF S = {} THEN <<>>
    ELSE LET m == CHOOSE m \in S : \A x \in S : lex_le(m, x)
         IN  <<m>> \o sorted(S \ {m})

\* the entries of section at the points of keep
filter_section(section, keep) == [point \in DOMAIN section \cap keep |-> section[point]]

\* BTreeMap::extend: the entries of more replace those of section
extend(section, more) ==
    [point \in DOMAIN section \cup DOMAIN more |->
        IF point \in DOMAIN more THEN more[point] ELSE section[point]]

\* glue as written names self.sections and calls get_oset_from_section without
\* its Observable; obs selects the section map both stand for
glue(sh, first_section, second_section, obs) ==
    LET secs == sections_of(sh, obs)
    IN  IF ~\E k \in DOMAIN secs :
              section_eq(secs[k], first_section) \/ section_eq(secs[k], second_section)
        THEN Err("Invalid sections!")
        ELSE IF \/ get_oset_from_section(sh, first_section, obs).tag # "Ok"
                \/ get_oset_from_section(sh, second_section, obs).tag # "Ok"
        THEN Panic
        ELSE
        LET first_oset == get_oset_from_section(sh, first_section, obs).val
            second_oset == get_oset_from_section(sh, second_section, obs).val
        IN  IF ~\E point \in Range(first_oset) : point \in Range(second_oset)
            THEN Err("The open sets do not overlap")
            ELSE
            LET \* the filter whose closure pushes the shared points is never
                \* consumed: intersection stays empty
                intersection == {}
                restricted_first == filter_section(first_section, intersection)
                restricted_second == filter_section(second_section, intersection)
                ks1 == sorted(DOMAIN restricted_first)
                ks2 == sorted(DOMAIN restricted_second)
                agree == \A i \in 1..Min(Len(ks1), Len(ks2)) :
                             f64_eq(restricted_first[ks1[i]], restricted_second[ks2[i]])
            IN  IF ~agree THEN Err("the sections do not agree on the overlap")
                ELSE
                LET remaining_second ==
                        filter_section(second_section, DOMAIN second_section \ intersection)
                    remaining_first ==
                        filter_section(first_section, DOMAIN first_section \ intersection)
                IN  Ok(extend(extend(remaining_first, remaining_second), restricted_first))

\* the section with the value at its least point raised by one: it disagrees
\* with the section there
disagreeing(section) ==
    IF DOMAIN section = {} THEN section
    ELSE [section EXCEPT ![sorted(DOMAIN section)[1]] = f64_add(@, f64(1, 1))]

\* the sections a caller passes to glue: the cached ones and, for each, the
\* one that disagrees with it at a point
SectionInputs(sh, obs) ==
    LET cached == {sections_of(sh, obs)[k] : k \in DOMAIN sections_of(sh, obs)}
    IN  cached \cup {disagreeing(s) : s \in cached}

----------------------------------------------------------------------------
\* The calls on a Topology and a Sheaf

\* at most this many open sets in the basis
MaxBasis == 4

\* the Topology is moved into the Sheaf by Sheaf::new, so the basis grows only
\* before the Sheaf is built
AddBasis ==
    /\ ~sheaf.built
    /\ Cardinality(basis) < MaxBasis
    /\ \E set \in OpenSetInputs(size) :
           /\ basis' = add_basis(basis, set)
           /\ last' = Call("add_basis", <<set>>, Ok("unit"))
    /\ UNCHANGED <<isingVars, ising2dVars, sheaf>>

IsOpen ==
    /\ ~sheaf.built
    /\ \E set \in OpenSetInputs(size) :
           last' = Call("is_open", <<set>>, Ok(is_open(basis, set)))
    /\ UNCHANGED <<isingVars, ising2dVars, basis, sheaf>>

SheafNew ==
    /\ ~sheaf.built
    /\ IF Sheaf_new_completes(basis, spins, size, coupling, applied_field)
       THEN /\ sheaf' = Sheaf_new(basis, spins, size, coupling, applied_field)
            /\ last' = Call("Sheaf::new", <<>>, Ok("unit"))
       ELSE /\ sheaf' = sheaf
            /\ last' = Call("Sheaf::new", <<>>, Panic)
    /\ UNCHANGED <<isingVars, ising2dVars, basis>>

\* a get_section that also records the open set in the Topology's basis
GetSectionIntoBasis ==
    /\ sheaf.built
    /\ \E open_set \in OpenSetInputs(size), obs \in Observable :
           /\ last' = Call("get_section", <<open_set, obs>>,
                           Ok(get_section(sheaf, open_set, obs)))
           /\ basis' = add_basis(basis, open_set)
    /\ UNCHANGED <<isingVars, ising2dVars, sheaf>>

GetSection ==
    /\ sheaf.built
    /\ \E open_set \in OpenSetInputs(size), obs \in Observable :
           last' = Call("get_section", <<open_set, obs>>,
                        Ok(get_section(sheaf, open_set, obs)))
    /\ UNCHANGED <<isingVars, ising2dVars, basis, sheaf>>

Restrict ==
    /\ sheaf.built
    /\ \E larger_oset \in basis, target_oset \in OpenSetInputs(size), obs \in Observable :
           last' = Call("restrict", <<larger_oset, target_oset, obs>>,
                        restrict(sheaf, larger_oset, target_oset, obs))
    /\ UNCHANGED <<isingVars, ising2dVars, basis, sheaf>>

Glue ==
    /\ sheaf.built
    /\ \E obs \in Observable :
         \E first_section \in SectionInputs(sheaf, obs),
            second_section \in SectionInputs(sheaf, obs) :
           last' = Call("glue", <<first_section, second_section, obs>>,
                        glue(sheaf, first_section, second_section, obs))
    /\ UNCHANGED <<isingVars, ising2dVars, basis, sheaf>>

\* the Ising the Sheaf is built from, on a lattice of MaxPoints points, and
\* the Topology over its lattice
InitSheaf ==
    /\ size \in {sz \in LatticeSizes : Product(sz) = MaxPoints}
    /\ spins = Ising_new(size)
    /\ coupling = 1
    /\ applied_field = 1
    /\ NoIsing2D
    /\ basis = Topology_new(size)
    /\ sheaf = NoSheaf
    /\ last = NoCall

\* set_spin and metropolis_stepper on the Ising, on its lattice's points
SetSpinOnLattice ==
    /\ \E idx \in all_points(size), spin \in Spin :
           LET r == set_spin(spins, size, idx, spin)
           IN  /\ spins' = r.spins
               /\ last' = Call("set_spin", <<idx, spin>>, r.ret)
    /\ UNCHANGED <<size, coupling, applied_field, ising2dVars, basis, sheaf>>

NextSheaf ==
    \/ AddBasis
    \/ IsOpen
    \/ SheafNew
    \/ GetSection
    \/ Restrict
    \/ Glue
    \/ SetSpinOnLattice
    \/ MetropolisStepper

SpecSheaf == InitSheaf /\ [][NextSheaf]_vars

----------------------------------------------------------------------------
\* Properties

SpinInt(s) == IF s = "Up" THEN 1 ELSE -1

RECURSIVE IntSum(_, _)
IntSum(S, f) ==
    IF S = {} THEN 0
    ELSE LET x == CHOOSE x \in S : TRUE IN f[x] + IntSum(S \ {x}, f)

\* p and q differ by one step along exactly one axis
UnitStep(p, q) ==
    /\ Len(p) = Len(q)
    /\ \E d \in 1..Len(p) :
           /\ p[d] = q[d] + 1 \/ q[d] = p[d] + 1
           /\ \A e \in 1..Len(p) : e # d => p[e] = q[e]

\* the nearest-neighbour bonds of the lattice, each an unordered pair
Bonds(sz) == {b \in SUBSET all_points(sz) : \E p \in b, q \in b : b = {p, q} /\ UnitStep(p, q)}

\* -h * (sum of s(p)) - J * (sum over bonds {p, q} of s(p) * s(q))
BondEnergy(sp, sz, J, h) ==
    LET field == IntSum(DOMAIN sp, [p \in DOMAIN sp |-> SpinInt(sp[p])])
        pairs == IntSum(Bonds(sz), [b \in Bonds(sz) |->
                     LET p == CHOOSE p \in b : TRUE
                         q == CHOOSE q \in b : q # p
                     IN  SpinInt(sp[p]) * SpinInt(sp[q])])
    IN  f64(-(h * field) - J * pairs, 1)

\* C1: after set_spin(p, s) returns Ok for a lattice point p, get_spin(p)
\* returns s.
C1_SetGetRoundTrip ==
    (/\ last.op = "set_spin"
     /\ last.ret.tag = "Ok"
     /\ last.args[1] \in all_points(size))
    => get_spin(spins, size, last.args[1]) = Ok(last.args[2])

\* C2: a metropolis_algo step whose energy change is not positive leaves the
\* drawn node's spin opposite to what it was before the step.
C2_AcceptNonPositive ==
    (/\ last.op = "metropolis_algo"
     /\ ~f64_gt0(last.ret.val.diff))
    => Ising2D_get_state(nodes, last.args[1], last.args[2]).val.spin
           = flip(last.ret.val.before)

\* C3: the spin map holds exactly one entry for each lattice point, from
\* Ising::new on and after every set_spin and metropolis_stepper.
C3_SpinDomain == DOMAIN spins = all_points(size)

\* metropolis_stepper has run on a lattice of more than one point
C3_Witness ==
    /\ last.op = "metropolis_stepper"
    /\ Cardinality(DOMAIN spins) > 1

\* C4: total_energy is -h * (sum of spins) - J * (sum over nearest-neighbour
\* bonds of the product of their two spins), each bond counted once.
C4_TotalEnergyBondsOnce ==
    last.op = "total_energy"
    => last.ret.val = BondEnergy(spins, size, coupling, applied_field)

\* C5: for a lattice point p, nearest_neighbor(p) is exactly the set of
\* lattice points one step from p along one axis, and q is among them exactly
\* when p is among nearest_neighbor(q).
C5_NeighborsSymmetricExact ==
    (/\ last.op = "nearest_neighbor"
     /\ last.args[1] \in all_points(size))
    => /\ last.ret = Ok({q \in all_points(size) : UnitStep(last.args[1], q)})
       /\ \A q \in all_points(size) :
              q \in last.ret.val
                  <=> last.args[1] \in nearest_neighbor(spins, size, q).val

\* nearest_neighbor has answered for a boundary point: it has a neighbour, and
\* another point of the lattice has more
C5_Witness ==
    /\ last.op = "nearest_neighbor"
    /\ last.args[1] \in all_points(size)
    /\ last.ret.tag = "Ok"
    /\ last.ret.val # {}
    /\ \E q \in all_points(size) :
           Cardinality(nearest_neighbor(spins, size, q).val) > Cardinality(last.ret.val)

\* every basis element consists of lattice points only
BasisOnLattice == \A base \in basis : Range(base) \subseteq all_points(size)

\* C6 as stated: whatever sets add_basis was given, is_open holds of the full
\* lattice and of the empty set.
C6_FullAndEmptyOpen ==
    /\ is_open(basis, multi_cartesian_product(size))
    /\ is_open(basis, <<>>)

\* C6 as amended: whatever sets add_basis was given, is_open holds of the
\* empty set; it holds of the full lattice when every basis element consists
\* of lattice points only.
C6_FullAndEmptyOpenOnLattice ==
    /\ is_open(basis, <<>>)
    /\ BasisOnLattice => is_open(basis, multi_cartesian_product(size))

\* is_open has answered true for the full lattice with an added, nonempty
\* proper subset of the lattice in the basis
C6_Witness ==
    /\ last.op = "is_open"
    /\ last.args[1] = multi_cartesian_product(size)
    /\ last.ret.val = TRUE
    /\ BasisOnLattice
    /\ \E base \in basis : base \notin Topology_new(size)

\* the two sections share a point and differ there
Mismatch(first, second) ==
    \E point \in DOMAIN first \cap DOMAIN second : first[point] # second[point]

\* the section is held by the Sheaf's map for obs
Cached(section, obs) ==
    \E k \in DOMAIN sections_of(sheaf, obs) : sections_of(sheaf, obs)[k] = section

\* the two sections share a point and agree at every shared point
Consistent(first, second) ==
    /\ DOMAIN first \cap DOMAIN second # {}
    /\ ~Mismatch(first, second)

\* the union of two consistent sections
Merged(first, second) ==
    [point \in DOMAIN first \cup DOMAIN second |->
        IF point \in DOMAIN first THEN first[point] ELSE second[point]]

\* C7: glue of two sections that differ at a shared point fails with "the
\* sections do not agree on the overlap".
C7_GlueReportsMismatch ==
    (/\ last.op = "glue"
     /\ Mismatch(last.args[1], last.args[2]))
    => last.ret = Err("the sections do not agree on the overlap")

\* C8: glue of two cached sections that share a point and agree wherever they
\* overlap returns their union.
C8_GlueSucceedsOnConsistent ==
    (/\ last.op = "glue"
     /\ Cached(last.args[1], last.args[3])
     /\ Cached(last.args[2], last.args[3])
     /\ Consistent(last.args[1], last.args[2]))
    => last.ret = Ok(Merged(last.args[1], last.args[2]))

\* C9: for cached sections A, B, C that pairwise overlap and agree, glue(A, B)
\* equals glue(B, A), succeeds, and its result glued with C succeeds and is
\* the union of the three.
C9_GlueCommutesAssociates ==
    (/\ last.op = "glue"
     /\ Cached(last.args[1], last.args[3])
     /\ Cached(last.args[2], last.args[3])
     /\ Consistent(last.args[1], last.args[2]))
    => \A C \in {sections_of(sheaf, last.args[3])[k] :
                    k \in DOMAIN sections_of(sheaf, last.args[3])} :
           (Consistent(last.args[1], C) /\ Consistent(last.args[2], C))
           => /\ glue(sheaf, last.args[2], last.args[1], last.args[3]) = last.ret
              /\ last.ret.tag = "Ok"
              /\ glue(sheaf, last.ret.val, C, last.args[3])
                     = Ok(Merged(Merged(last.args[1], last.args[2]), C))

\* C10: restrict(larger, target) fails with the not-a-subset error when target
\* has a point outside larger; otherwise it returns a section whose domain is
\* exactly target, with the values of the section over larger.
C10_RestrictProjects ==
    last.op = "restrict"
    => IF Range(last.args[2]) \subseteq Range(last.args[1])
       THEN /\ last.ret.tag = "Ok"
            /\ DOMAIN last.ret.val = Range(last.args[2])
            /\ \A point \in Range(last.args[2]) :
                   last.ret.val[point]
                       = get_section(sheaf, last.args[1], last.args[3])[point]
       ELSE last.ret = Err("Target Open Set is not a subset of the provided start set!")

\* some point of the open set lies in no basis element
Uncovered(open_set) ==
    \E point \in Range(open_set) : \A base \in basis : point \notin Range(base)

\* C11: get_section fails with a point-not-covered error when some point of
\* the open set lies in no basis element; otherwise the section it returns has
\* exactly the points of the open set as its domain.
C11_SectionCoversOrFails ==
    last.op = "get_section"
    => IF Uncovered(last.args[1])
       THEN last.ret.tag = "Err"
       ELSE /\ last.ret.tag = "Ok"
            /\ DOMAIN last.ret.val = Range(last.args[1])

\* C12: get_spin, set_spin, nearest_neighbor and local_energy, given a tuple
\* that is no point of the lattice (a coordinate at or past its extent, or a
\* length other than the dimension), return Err("Invalid Index"), and the
\* spin map is as Ising::new built it.
C12_InvalidPointIsError ==
    (/\ last.op \in {"get_spin", "set_spin", "nearest_neighbor", "local_energy"}
     /\ last.args[1] \notin all_points(size))
    => /\ last.ret = Err("Invalid Index")
       /\ spins = Ising_new(size)

\* C13: a metropolis_algo step whose energy change is positive leaves the
\* drawn node's spin flipped exactly when the uniform draw does not exceed
\* exp(-diff / (BOLTZMANN * temperature)), and restores it otherwise.
C13_AcceptPositiveByBoltzmann ==
    (/\ last.op = "metropolis_algo"
     /\ f64_gt0(last.ret.val.diff))
    => LET now == Ising2D_get_state(nodes, last.args[1], last.args[2]).val.spin
       IN  IF last.args[3] THEN now = last.ret.val.before
           ELSE now = flip(last.ret.val.before)

\* C14: once get_section has returned for an open set, the observable's
\* section map holds the returned section under that open set (an open set
\* that was no key of the map has been added to it).
C14_SectionIsCached ==
    last.op = "get_section"
    => IF last.args[1] \in DOMAIN sections_of(sheaf, last.args[2])
       THEN sections_of(sheaf, last.args[2])[last.args[1]] = last.ret.val
       ELSE FALSE

SheafCalls == {"Sheaf::new", "get_section", "restrict", "glue"}

ModelCalls == {"set_spin", "metropolis_stepper"}

\* every section the Sheaf holds before the step is held, unchanged, after it
SectionsKept ==
    \A obs \in Observable :
        \A k \in DOMAIN sections_of(sheaf, obs) :
            IF k \in DOMAIN sections_of(sheaf', obs)
            THEN sections_of(sheaf', obs)[k] = sections_of(sheaf, obs)[k]
            ELSE FALSE

\* C15: once the Sheaf is built, no step changes a section it holds, a
\* set_spin or metropolis_stepper on the Ising leaves every get_section
\* result as it was, and no call on the Sheaf changes the spin map or the
\* Topology's basis.
C15_SheafIsSnapshot ==
    [][/\ sheaf.built => SectionsKept
       /\ (sheaf.built /\ last'.op \in ModelCalls)
          => \A open_set \in OpenSetInputs(size), obs \in Observable :
                 get_section(sheaf', open_set, obs) = get_section(sheaf, open_set, obs)
       /\ last'.op \in SheafCalls => (spins' = spins /\ basis' = basis)]_vars

\* set_spin or metropolis_stepper has run on the Ising after the Sheaf was
\* built from it, and the Sheaf holds the section of an added open set
C15_Witness ==
    /\ sheaf.built
    /\ last.op \in ModelCalls
    /\ \E k \in DOMAIN sheaf.spin_sections : k \notin Topology_new(size)

\* the open sets over the lattice's points and one point outside it
SetsOver(sz) == {sorted(S) : S \in SUBSET (all_points(sz) \cup {outside(sz)})}

\* the set holds at least one lattice point and not all of them
Partial(set) ==
    /\ Range(set) \cap all_points(size) # {}
    /\ ~(all_points(size) \subseteq Range(set))

\* C16: is_open is false of every set that holds at least one but not all of
\* the lattice's points, whatever was added to the basis, the set itself
\* included.
C16_PartialSetNotOpen ==
    /\ \A set \in SetsOver(size) : Partial(set) => ~is_open(basis, set)
    /\ (last.op = "is_open" /\ Partial(last.args[1])) => last.ret = Ok(FALSE)

\* is_open has answered false for a partial set that add_basis had put in the
\* basis
C16_Witness ==
    /\ last.op = "is_open"
    /\ Partial(last.args[1])
    /\ last.args[1] \in basis
    /\ last.ret = Ok(FALSE)

====
